---- MODULE Spec2Model ----
(***************************************************************************)
(* Model of the document validation pipeline of                            *)
(* shared-libs/transitions/src/lib/validation.js: the rule rewriter, the   *)
(* synchronous rule evaluation, the extra (datastore-backed) validators    *)
(* run in series, and the reduction of the ResultSet to an error list.     *)
(*                                                                         *)
(* JavaScript values are modelled as follows.                              *)
(*  - A property name is a sequence of tokens: "pid_unique" is             *)
(*    <<"pid", "_unique">>.  No base token contains '_' followed by the    *)
(*    name of an extra validator, so the substring test                    *)
(*    property.indexOf('_' + funcName) is a test on the tokens (the token  *)
(*    "_uniqueWithin" contains "_unique").                                 *)
(*  - A string value of a document is a sequence of characters.            *)
(*  - An object with string keys is a sequence of <<key, value>> pairs     *)
(*    with distinct keys, in insertion order (the order Object.keys and    *)
(*    _.reduce iterate in).                                                *)
(*  - An optional value is <<>> (undefined) or <<x>>.                      *)
(***************************************************************************)
EXTENDS Integers, Sequences, FiniteSets, TLC

\* Bounds of the model.
MaxSpecs == 2
MaxCalls == 2
\* The day validate runs on (moment()), counted in days.
Now == 10

VARIABLES
  validations,  \* the caller's ValidationSpec list (mutated by the rewriter)
  ignores,      \* the ignores argument of the running validate call
  pc,           \* position of the running validate call
  calls,        \* number of validate calls started on this list
  errors,       \* validate's local `errors`
  result,       \* result.results, the ResultSet (<<>> before evaluation)
  idx,          \* position of async.eachSeries in validations
  exists,       \* the _exists call in flight, or NoExists
  cbArgs,       \* what validate's callback was invoked with, in order
  invoked,      \* indexes of the specs whose extra validator was invoked
  queries,      \* datastore requests issued by the running call
  pupilCalls,   \* calls of pupil.validate made by the running call
  syncResult,   \* the ResultSet as pupil.validate returned it
  seriesErr,    \* the error async.eachSeries was aborted with, or NoErr
  returned,     \* the (err, res) the invoked validators called back with
  attributes,   \* the flattened attribute map of the running call
  extracted,    \* a direct call of extractErrors: its arguments and output
  doc,          \* the document under validation: its own keys and doc.fields
  db,           \* the documents the datastore holds
  parked,       \* the variables of a second validate call that is not running
  weekCheck     \* a direct call of isISOWeek: its arguments and output

vars == <<validations, ignores, pc, calls, errors, result, idx, exists,
          cbArgs, invoked, queries, pupilCalls, syncResult, seriesErr,
          returned, attributes, extracted, doc, db, parked, weekCheck>>

----------------------------------------------------------------------------
\* JavaScript objects as insertion-ordered sequences of <<key, value>> pairs.

ObjHas(o, k) == \E i \in 1..Len(o) : o[i][1] = k

\* o[k], or the given default when o has no key k
ObjGet(o, k, dflt) ==
  IF ObjHas(o, k) THEN o[CHOOSE i \in 1..Len(o) : o[i][1] = k][2] ELSE dflt

\* o[k] = v: an existing key keeps its position, a new key goes last
ObjSet(o, k, v) ==
  IF ObjHas(o, k)
    THEN [i \in 1..Len(o) |-> IF o[i][1] = k THEN <<k, v>> ELSE o[i]]
    ELSE Append(o, <<k, v>>)

None == <<>>
Some(x) == <<x>>

\* _.extend(target, source): every key of source assigned to target, in order
RECURSIVE Extend(_, _)
Extend(target, source) ==
  IF source = <<>> THEN target
  ELSE Extend(ObjSet(target, Head(source)[1], Head(source)[2]), Tail(source))

----------------------------------------------------------------------------
\* String values are sequences of characters: "53" is <<"5", "3">>.

Undefined == <<"undefined">>

Lower(c) ==
  CASE c = "X" -> "x" [] c = "R" -> "r" [] c = "E" -> "e" [] c = "G" -> "g"
    [] OTHER -> c

\* lowerCaseString, for a string value
lowerCaseString(value) == [i \in 1..Len(value) |-> Lower(value[i])]

Digits == <<"0", "1", "2", "3", "4", "5", "6", "7", "8", "9">>

IsDigit(c) == \E d \in 1..Len(Digits) : Digits[d] = c

DigitValue(c) == (CHOOSE d \in 1..Len(Digits) : Digits[d] = c) - 1

\* AllDigits without the upper bound on the length
AllDigits_NoMax(value, lo, hi) ==
  /\ Len(value) >= lo
  /\ \A i \in 1..Len(value) : IsDigit(value[i])

\* /^\d{lo,hi}$/.test(value)
AllDigits(value, lo, hi) ==
  /\ Len(value) >= lo
  /\ Len(value) <= hi
  /\ \A i \in 1..Len(value) : IsDigit(value[i])

\* the number a string of digits converts to
RECURSIVE ToNumber(_)
ToNumber(value) ==
  IF value = <<>> THEN 0
  ELSE 10 * ToNumber(SubSeq(value, 1, Len(value) - 1)) + DigitValue(value[Len(value)])

----------------------------------------------------------------------------
\* The extra validator registry and the rules of the model.

names == <<"unique", "uniqueWithin", "exists", "isISOWeek">>

IsExtra(f) == \E i \in 1..Len(names) : names[i] = f

Suffix(f) == "_" \o f

Func(f, args) == [funcName |-> f, funcArgs |-> args]

\* pupil.parser.parse(pupil.lexer.tokenize(rule)): the entities of a rule, or
\* a thrown exception (ok = FALSE).
Parse(rule) ==
  CASE rule = "lenMin(5)" ->
         [ok |-> TRUE, entities |-> << [sub |-> <<Func("lenMin", <<"5">>)>>] >>]
    [] rule = "unique('pid')" ->
         [ok |-> TRUE, entities |-> << [sub |-> <<Func("unique", <<"pid">>)>>] >>]
    [] rule = "unique()" ->
         [ok |-> TRUE, entities |-> << [sub |-> <<Func("unique", <<>>)>>] >>]
    [] rule = "lenMin(5) && unique('pid')" ->
         [ok |-> TRUE,
          entities |-> << [sub |-> <<Func("lenMin", <<"5">>),
                                     Func("unique", <<"pid">>)>>] >>]
    [] rule = "unique('pid','name')" ->
         [ok |-> TRUE,
          entities |-> << [sub |-> <<Func("unique", <<"pid", "name">>)>>] >>]
    [] rule = "uniqueWithin('1 week')" ->
         [ok |-> TRUE,
          entities |-> << [sub |-> <<Func("uniqueWithin",
                                          << <<"1", " ", "week">> >>)>>] >>]
    [] rule = "uniqueWithin('pid','1 week')" ->
         [ok |-> TRUE,
          entities |-> << [sub |-> <<Func("uniqueWithin",
                                          <<"pid", <<"1", " ", "week">> >>)>>] >>]
    [] rule = "uniqueWithin('pid','7 days')" ->
         [ok |-> TRUE,
          entities |-> << [sub |-> <<Func("uniqueWithin",
                                          <<"pid", <<"7", " ", "days">> >>)>>] >>]
    [] rule = "exists('REG','pid')" ->
         [ok |-> TRUE,
          entities |-> << [sub |-> <<Func("exists", << <<"R", "E", "G">>, "pid">>)>>] >>]
    [] rule = "isISOWeek('week','year')" ->
         [ok |-> TRUE,
          entities |-> << [sub |-> <<Func("isISOWeek", <<"week", "year">>)>>] >>]
    [] OTHER -> [ok |-> FALSE, entities |-> <<>>]

----------------------------------------------------------------------------
\* The rule rewriter (validate, first stage).

\* the token t starts with the string s ("_uniqueWithin" with "_unique")
StartsWith(t, s) == t = s \/ (s = "_unique" /\ t = "_uniqueWithin")

\* property.indexOf(tok) !== -1, for tok = '_' + funcName
HasToken(property, tok) ==
  \E i \in 1..Len(property) : StartsWith(property[i], tok)

\* RewriteSub without the "only update the first time through" test
RewriteSub_Unguarded(v, e) ==
  IF IsExtra(e.funcName)
    THEN [v EXCEPT !.funcName = e.funcName,
                   !.funcArgs = Some(e.funcArgs),
                   !.field = Some(v.property),
                   !.property = Append(v.property, Suffix(e.funcName))]
    ELSE v

\* One sub-entity e of a parsed rule, applied to the spec v it belongs to.
RewriteSub(v, e) ==
  IF IsExtra(e.funcName) /\ ~HasToken(v.property, Suffix(e.funcName))
    THEN [v EXCEPT !.funcName = e.funcName,
                   !.funcArgs = Some(e.funcArgs),
                   !.field = Some(v.property),
                   !.property = Append(v.property, Suffix(e.funcName))]
    ELSE v

RECURSIVE RewriteSubs(_, _)
RewriteSubs(v, sub) ==
  IF sub = <<>> THEN v ELSE RewriteSubs(RewriteSub(v, Head(sub)), Tail(sub))

RECURSIVE RewriteEntities(_, _)
RewriteEntities(v, entities) ==
  IF entities = <<>> THEN v
  ELSE RewriteEntities(RewriteSubs(v, Head(entities).sub), Tail(entities))

\* 'Error on pupil validations: ' + JSON.stringify(e), e thrown for the rule
ParseError(rule) == [str |-> <<"Error on pupil validations: ", rule>>]

\* The _.each over validations: the rewritten list and the parse errors pushed.
RECURSIVE RewriteFrom(_, _, _)
RewriteFrom(vs, i, errs) ==
  IF i > Len(vs) THEN [validations |-> vs, errors |-> errs]
  ELSE LET parsed == Parse(vs[i].rule) IN
       IF ~parsed.ok
         THEN RewriteFrom(vs, i + 1, Append(errs, ParseError(vs[i].rule)))
         ELSE RewriteFrom([vs EXCEPT ![i] = RewriteEntities(vs[i], parsed.entities)],
                          i + 1, errs)

\* Rewrite keeping the first parse error only
Rewrite_FirstError(vs) ==
  LET rw == RewriteFrom(vs, 1, <<>>) IN
  [rw EXCEPT !.errors = IF Len(rw.errors) > 1 THEN <<rw.errors[1]>> ELSE rw.errors]

Rewrite(vs) == RewriteFrom(vs, 1, <<>>)

----------------------------------------------------------------------------
\* getRules, getMessages and extractErrors.

RECURSIVE getRulesFrom(_, _, _)
getRulesFrom(vs, i, memo) ==
  IF i > Len(vs) THEN memo
  ELSE getRulesFrom(vs, i + 1,
         IF vs[i].property # <<>> /\ vs[i].rule # ""
           THEN ObjSet(memo, vs[i].property, vs[i].rule) ELSE memo)

getRules(vs) == getRulesFrom(vs, 1, <<>>)

\* messages.getMessage(validation, locale): the message the spec declares
getMessage(v) == v.message[1]

RECURSIVE getMessagesFrom(_, _, _)
getMessagesFrom(vs, i, memo) ==
  IF i > Len(vs) THEN memo
  ELSE getMessagesFrom(vs, i + 1,
         IF vs[i].property # <<>> /\ vs[i].message # None
           THEN ObjSet(memo, vs[i].property, getMessage(vs[i])) ELSE memo)

getMessages(vs) == getMessagesFrom(vs, 1, <<>>)

\* IgnoreList that does not wrap a single item
IgnoreList_NoWrap(ig) ==
  IF ig = None THEN <<>>
  ELSE IF "list" \in DOMAIN ig[1] THEN ig[1].list ELSE <<>>

\* ignores = ignores || []; a single item is wrapped in an array.
\* The argument is None (absent), [one |-> name] or [list |-> names].
IgnoreList(ig) ==
  IF ig = None THEN <<>>
  ELSE IF "list" \in DOMAIN ig[1] THEN ig[1].list ELSE <<ig[1].one>>

Contains(list, x) == \E i \in 1..Len(list) : list[i] = x

ErrorDescriptor(key, msgs) ==
  [code |-> <<"invalid_">> \o key, message |-> ObjGet(msgs, key, "undefined")]

RECURSIVE extractFrom(_, _, _, _, _)
extractFrom(res, i, msgs, ign, memo) ==
  IF i > Len(res) THEN memo
  ELSE extractFrom(res, i + 1, msgs, ign,
         IF ~res[i][2] /\ ~Contains(ign, res[i][1])
           THEN Append(memo, ErrorDescriptor(res[i][1], msgs)) ELSE memo)

\* extractErrors putting each descriptor in front of the earlier ones
extractErrors_Unshift(res, msgs, ig) ==
  LET out == extractFrom(res, 1, msgs, IgnoreList(ig), <<>>) IN
  [i \in 1..Len(out) |-> out[Len(out) + 1 - i]]

extractErrors(res, msgs, ig) == extractFrom(res, 1, msgs, IgnoreList(ig), <<>>)

----------------------------------------------------------------------------
\* The datastore-backed existence check (_exists) and the extra validators.

NoErr == "null"
NoArgsError == "No arguments provided to \"exists\" validation function"
DbError == "datastore error"

\* Document ids the datastore may report; "self" is the _id of the documents
\* under validation.
Ids == {"self", "other"}

NoExists == [phase |-> "none"]

NoExtract == [called |-> FALSE]

NoWeekCheck == [called |-> FALSE]

\* the variables of a validate call that has not started
NoCall ==
  [ignores |-> None, pc |-> "idle", errors |-> <<>>, result |-> <<>>, idx |-> 0,
   exists |-> NoExists, cbArgs |-> <<>>, invoked |-> <<>>, queries |-> 0,
   pupilCalls |-> 0, syncResult |-> <<>>, seriesErr |-> NoErr,
   returned |-> <<>>, attributes |-> <<>>]

\* JavaScript's !result for the result of _exists
Not(res) == IF res = "true" THEN "false" ELSE "true"

\* ValidatorResult passing the result of _exists on as it is
ValidatorResult_Plain(funcName, res) == res

\* What the validator funcName passes to its own callback when _exists
\* calls back with (err, res): unique and uniqueWithin negate the result.
ValidatorResult(funcName, res) ==
  IF funcName \in {"unique", "uniqueWithin"} THEN Not(res) ELSE res

\* _parseDuration: "<integer> <unit>" as a number of days
UnitDays(unit) ==
  CASE unit \in {"day", "days"} -> 1
    [] unit \in {"week", "weeks"} -> 7

parseDuration(duration) ==
  LET space == CHOOSE i \in 1..Len(duration) :
                 duration[i] = " " /\ \A j \in 1..(i - 1) : duration[j] # " "
  IN ToNumber(SubSeq(duration, 1, space - 1)) * UnitDays(duration[space + 1])

\* fields and options the validator of spec v gives to _exists
ExistsFields(v) ==
  LET args == v.funcArgs[1] IN
  CASE v.funcName = "unique" -> args
    [] v.funcName = "uniqueWithin" -> SubSeq(args, 1, Len(args) - 1)
    [] v.funcName = "exists" -> <<args[2]>>

ExistsOptions(v) ==
  LET args == v.funcArgs[1] IN
  [startDate |-> IF v.funcName = "uniqueWithin"
                   THEN Some(Now - parseDuration(args[Len(args)])) ELSE None,
   additionalFilter |-> IF v.funcName = "exists"
                          THEN Some(<<"form", args[1]>>) ELSE None]

\* requestOptions: the key of one lookup per field, `field:value` with the
\* value in lower case, and one more for the additional filter
requestOptions(attrs, fields, options) ==
  [i \in 1..Len(fields) |->
     <<fields[i], lowerCaseString(ObjGet(attrs, fields[i], Undefined))>>]
  \o (IF options.additionalFilter # None
        THEN << <<options.additionalFilter[1][1],
                  lowerCaseString(options.additionalFilter[1][2])>> >>
        ELSE <<>>)

\* getIntersection keeping the ids of any response
getIntersection_Union(responses) ==
  UNION {responses[i] : i \in 1..Len(responses)}

\* _getIntersection: the ids of the last response that every other response has
getIntersection(responses) ==
  {id \in responses[Len(responses)] :
     \A i \in 1..(Len(responses) - 1) : id \in responses[i]}

\* ids.filter(id => id !== doc._id), doc being the attribute map
Candidates(responses, attrs) ==
  {id \in getIntersection(responses) : <<id>> # ObjGet(attrs, "_id", Undefined)}

\* Found comparing reported_date with > instead of >=
Found_Strict(docs, options) ==
  \E id \in DOMAIN docs :
    /\ ~docs[id].errors
    /\ options.startDate = None \/ docs[id].reported_date > options.startDate[1]

\* result.rows.some(...): docs maps each fetched id to its document, of which
\* errors (a non-empty errors list) and reported_date are read
Found(docs, options) ==
  \E id \in DOMAIN docs :
    /\ ~docs[id].errors
    /\ options.startDate = None \/ docs[id].reported_date >= options.startDate[1]

\* the day of the week of 1 January of the year (0 is Sunday)
DayOfJan1(year) ==
  (1 + 5 * ((year - 1) % 4) + 4 * ((year - 1) % 100) + 6 * ((year - 1) % 400)) % 7

IsLeapYear(year) == (year % 4 = 0 /\ year % 100 # 0) \/ year % 400 = 0

\* moment().year(year).isoWeeksInYear(): 53 when the year starts on a
\* Thursday, or is a leap year and starts on a Wednesday
isoWeeksInYear(year) ==
  IF DayOfJan1(year) = 4 \/ (IsLeapYear(year) /\ DayOfJan1(year) = 3)
    THEN 53 ELSE 52

\* new Date().getFullYear()
CurrentYear == <<"2", "0", "2", "6">>

\* isISOWeek that calls back with an error when a field is missing
isISOWeek_MissingIsError(attrs, v) ==
  LET week == v.funcArgs[1][1]
      yearField == IF Len(v.funcArgs[1]) >= 2 THEN Some(v.funcArgs[1][2]) ELSE None
  IN IF ~ObjHas(attrs, week) \/ (yearField # None /\ ~ObjHas(attrs, yearField[1]))
       THEN [err |-> "input field(s) do not exist", res |-> "undefined"]
       ELSE [err |-> NoErr, res |-> "true"]

\* extra_validations.isISOWeek: the (err, res) it calls back with
isISOWeek(attrs, v) ==
  LET week == v.funcArgs[1][1]
      yearField == IF Len(v.funcArgs[1]) >= 2 THEN Some(v.funcArgs[1][2]) ELSE None
  IN IF ~ObjHas(attrs, week) \/ (yearField # None /\ ~ObjHas(attrs, yearField[1]))
       THEN [err |-> NoErr, res |-> "false"]
       ELSE LET year == IF yearField # None
                          THEN ObjGet(attrs, yearField[1], Undefined)
                          ELSE CurrentYear
                w == ObjGet(attrs, week, Undefined)
            IN [err |-> NoErr,
                res |-> IF /\ AllDigits(w, 1, 2)
                           /\ AllDigits(year, 4, 4)
                           /\ ToNumber(w) >= 1
                           /\ ToNumber(w) <= isoWeeksInYear(ToNumber(year))
                          THEN "true" ELSE "false"]

----------------------------------------------------------------------------
\* The declared validations and arguments the calls are drawn from.

Spec0(property, rule, message) ==
  [property |-> property, rule |-> rule, message |-> message,
   funcName |-> "", funcArgs |-> None, field |-> None]

DeclaredSpecs ==
  { Spec0(<<"pid">>, r, Some("msg " \o r)) :
      r \in {"lenMin(5)", "lenMin(", "unique('pid')", "unique()",
             "lenMin(5) && unique('pid')", "uniqueWithin('pid','1 week')"} }
  \cup { Spec0(<<"week">>, "isISOWeek('week','year')", Some("msg week")),
         Spec0(<<"pid">>, "exists('REG','pid')", None),
         Spec0(<<"pid", "_unique">>, "lenMin(5)", Some("msg pid_unique")) }

ValidationLists ==
  UNION { [1..n -> DeclaredSpecs] : n \in 1..MaxSpecs }

IgnoreArgs ==
  { None, Some([one |-> <<"pid">>]),
    Some([list |-> << <<"pid">>, <<"pid", "_unique">> >>]) }

----------------------------------------------------------------------------
\* The document under validation.  doc.own holds the keys of the document
\* other than `fields`, doc.fields the keys of doc.fields.

ObjectString == <<"[object Object]">>

DocOf(own, fields) == [own |-> own, fields |-> fields]

\* the keys of the document itself, `fields` included
DocKeys(d) == Append(d.own, <<"fields", ObjectString>>)

\* Flatten with doc.fields merged first and the document second
Flatten_FieldsFirst(d) == Extend(Extend(<<>>, d.fields), DocKeys(d))

\* attributes = _.extend({}, doc, doc.fields)
Flatten(d) == Extend(Extend(<<>>, DocKeys(d)), d.fields)

\* DocAfterFlatten when the document itself is the target of _.extend
DocAfterFlatten_Target(d) == [d EXCEPT !.own = Extend(d.own, d.fields)]

\* the document after _.extend({}, doc, doc.fields): the target is a new
\* object, doc and doc.fields are sources and only read
DocAfterFlatten(d) == d

Docs ==
  { DocOf(<< <<"_id", <<"self">> >> >>,
          << <<"pid", <<"X">> >>, <<"week", <<"5", "3">> >>,
             <<"year", <<"2", "0", "1", "5">> >> >>),
    DocOf(<< <<"_id", <<"self">> >> >>,
          << <<"pid", <<"X">> >> >>) }

----------------------------------------------------------------------------
\* validate

\* Callback that invokes the completion callback a second time
Callback_Twice(invocations, errs) == Append(Append(invocations, errs), errs)

\* callback(errors): one more invocation of the completion callback
Callback(invocations, errs) == Append(invocations, errs)

\* HasParseErrors that never reports trouble
HasParseErrors_Never(errs) == FALSE

HasParseErrors(errs) == Len(errs) > 0

\* the string pushed when pupil.validate throws
EvalError == [str |-> <<"Error on pupil validations: ", "validate">>]

\* MergeResult assigning whatever boolean the validator returned
MergeResult_Assign(res0, property, res) ==
  IF res = "undefined" THEN res0 ELSE ObjSet(res0, property, res = "true")

\* result.results[v.property] = res, only when res === false
MergeResult(res0, property, res) ==
  IF res = "false" THEN ObjSet(res0, property, FALSE) ELSE res0

\* SeriesAborts when the error is not passed on to cb
SeriesAborts_Never(err) == FALSE

\* async.eachSeries stops at the first iteratee that passes an error to cb
SeriesAborts(err) == err # NoErr

\* FinalErrors that does not pass ignores on to extractErrors
FinalErrors_NoIgnores(errs, res, vs, ig) ==
  errs \o extractErrors(res, getMessages(vs), None)

\* errors.concat(extractErrors(result.fields(), getMessages(...), ignores))
FinalErrors(errs, res, vs, ig) ==
  errs \o extractErrors(res, getMessages(vs), ig)

\* every function the rule calls is an extra validator
OnlyExtra(rule) ==
  LET parsed == Parse(rule) IN
  /\ parsed.ok
  /\ \A i \in 1..Len(parsed.entities) :
       \A j \in 1..Len(parsed.entities[i].sub) :
         IsExtra(parsed.entities[i].sub[j].funcName)

\* pupil.validate(rules, attributes): a boolean for every key of rules; a
\* key whose rule calls extra validators only is valid, any other rule may
\* hold or fail on the attributes
PupilResults(rules) ==
  { [i \in 1..Len(rules) |-> <<rules[i][1], b[i]>>] :
      b \in { f \in [1..Len(rules) -> BOOLEAN] :
                \A i \in 1..Len(rules) : OnlyExtra(rules[i][2]) => f[i] } }

Init ==
  /\ validations \in ValidationLists
  /\ ignores = None
  /\ pc = "idle"
  /\ calls = 0
  /\ errors = <<>>
  /\ result = <<>>
  /\ idx = 0
  /\ exists = NoExists
  /\ cbArgs = <<>>
  /\ invoked = <<>>
  /\ queries = 0
  /\ pupilCalls = 0
  /\ syncResult = <<>>
  /\ seriesErr = NoErr
  /\ returned = <<>>
  /\ attributes = <<>>
  /\ extracted = NoExtract
  /\ doc \in Docs
  /\ db = {}
  /\ parked = NoCall
  /\ weekCheck = NoWeekCheck

\* validate is called (on the list a previous call may have rewritten); the
\* rewriter runs over the whole list.
Validate(ig) ==
  /\ pc \in {"idle", "done"}
  /\ calls < MaxCalls
  /\ LET rw == Rewrite(validations) IN
       /\ validations' = rw.validations
       /\ errors' = rw.errors
  /\ ignores' = ig
  /\ calls' = calls + 1
  /\ pc' = "rewritten"
  /\ result' = <<>>
  /\ idx' = 0
  /\ exists' = NoExists
  /\ cbArgs' = <<>>
  /\ invoked' = <<>>
  /\ queries' = 0
  /\ pupilCalls' = 0
  /\ syncResult' = <<>>
  /\ seriesErr' = NoErr
  /\ returned' = <<>>
  /\ attributes' = <<>>
  /\ UNCHANGED <<extracted, doc, db, parked, weekCheck>>

\* trouble parsing pupil rules: callback(errors)
ParseAbort ==
  /\ pc = "rewritten"
  /\ HasParseErrors(errors)
  /\ cbArgs' = Callback(cbArgs, errors)
  /\ pc' = "done"
  /\ UNCHANGED <<validations, ignores, calls, errors, result, idx, exists,
                 invoked, queries, pupilCalls, syncResult, seriesErr,
                 returned, extracted, attributes, doc, db, parked, weekCheck>>

\* pupil.validate returns the ResultSet; async.eachSeries starts
Evaluate ==
  /\ pc = "rewritten"
  /\ ~HasParseErrors(errors)
  /\ attributes' = Flatten(doc)
  /\ doc' = DocAfterFlatten(doc)
  /\ pupilCalls' = pupilCalls + 1
  /\ \E r \in PupilResults(getRules(validations)) :
       /\ result' = r
       /\ syncResult' = r
  /\ idx' = 1
  /\ pc' = "series"
  /\ UNCHANGED <<validations, ignores, calls, errors, exists, cbArgs,
                 invoked, queries, seriesErr,
                 returned, extracted, db, parked, weekCheck>>

\* pupil.validate throws: the error string is pushed and passed to callback
EvaluateThrows ==
  /\ pc = "rewritten"
  /\ ~HasParseErrors(errors)
  /\ attributes' = Flatten(doc)
  /\ doc' = DocAfterFlatten(doc)
  /\ pupilCalls' = pupilCalls + 1
  /\ errors' = Append(errors, EvalError)
  /\ cbArgs' = Callback(cbArgs, errors')
  /\ pc' = "done"
  /\ UNCHANGED <<validations, ignores, calls, result, idx, exists,
                 invoked, queries, syncResult, seriesErr,
                 returned, extracted, db, parked, weekCheck>>

\* The callback validate gives the extra validator of validations[idx],
\* called with (err, res): merge a false result, then cb(err).
ValidatorDone(err, res) ==
  /\ returned' = Append(returned, [err |-> err, res |-> res])
  /\ result' = MergeResult(result, validations[idx].property, res)
  /\ IF SeriesAborts(err)
       THEN /\ seriesErr' = err
            /\ pc' = "final"
            /\ idx' = idx
       ELSE /\ seriesErr' = seriesErr
            /\ pc' = "series"
            /\ idx' = idx + 1

\* SeriesReady for an iteration that starts every iteratee at once
SeriesReady_Each(p) == p \in {"series", "io"}

\* async.eachSeries calls the iteratee of the next spec once the previous
\* one has called cb
SeriesReady(p) == p = "series"

\* SkipSpec that returns without calling cb
SkipSpec_NoCb(i) == i

\* return cb(): the series goes on with the next spec
SkipSpec(i) == i + 1

\* a spec without funcName: cb() continues the series
SeriesSkip ==
  /\ SeriesReady(pc)
  /\ idx <= Len(validations)
  /\ validations[idx].funcName = ""
  /\ idx' = SkipSpec(idx)
  /\ UNCHANGED <<validations, ignores, pc, calls, errors, result, exists,
                 cbArgs, invoked, queries, pupilCalls, syncResult, seriesErr,
                 returned, extracted, attributes, doc, db, parked, weekCheck>>

\* isISOWeek calls back at once with (null, true) or (null, false),
\* depending on the week and year the attributes hold
InvokeISOWeek ==
  /\ SeriesReady(pc)
  /\ idx <= Len(validations)
  /\ validations[idx].funcName = "isISOWeek"
  /\ invoked' = Append(invoked, idx)
  /\ LET r == isISOWeek(attributes, validations[idx]) IN ValidatorDone(r.err, r.res)
  /\ UNCHANGED <<validations, ignores, calls, errors, exists, cbArgs,
                 queries, pupilCalls, syncResult,
                 extracted, attributes, doc, db, parked, weekCheck>>

\* NoFieldsToCheck that lets every list of fields through
NoFieldsToCheck_Never(fields) == FALSE

\* !fields.length
NoFieldsToCheck(fields) == Len(fields) = 0

\* unique, uniqueWithin and exists call _exists: with no field it calls back
\* with an error at once, otherwise it issues one lookup per request option
InvokeExists ==
  /\ SeriesReady(pc)
  /\ idx <= Len(validations)
  /\ validations[idx].funcName \in {"unique", "uniqueWithin", "exists"}
  /\ invoked' = Append(invoked, idx)
  /\ LET v == validations[idx]
         fields == ExistsFields(v)
         options == ExistsOptions(v)
         keys == requestOptions(attributes, fields, options)
         n == Len(keys)
     IN IF NoFieldsToCheck(fields)
          THEN /\ ValidatorDone(NoArgsError, ValidatorResult(v.funcName, "undefined"))
               /\ UNCHANGED <<exists, queries>>
          ELSE /\ exists' = [phase |-> "lookups", options |-> options,
                             keys |-> keys, pending |-> 1..n,
                             responses |-> [i \in 1..n |-> {}], ids |-> {}]
               /\ queries' = queries + n
               /\ pc' = "io"
               /\ UNCHANGED <<returned, result, idx, seriesErr>>
  /\ UNCHANGED <<validations, ignores, calls, errors, cbArgs, pupilCalls,
                 syncResult,
                 extracted, attributes, doc, db, parked, weekCheck>>

\* a lookup fails: async.map calls back with the error, _exists passes it on
LookupFails(i) ==
  /\ pc = "io"
  /\ exists.phase = "lookups"
  /\ i \in exists.pending
  /\ ValidatorDone(DbError, ValidatorResult(validations[idx].funcName, "undefined"))
  /\ exists' = NoExists
  /\ UNCHANGED <<validations, ignores, calls, errors, cbArgs, invoked,
                 queries, pupilCalls, syncResult,
                 extracted, attributes, doc, db, parked, weekCheck>>

\* AllReturned that does not wait for the lookups still pending
AllReturned_First(pending) == TRUE

\* async.map calls back with every response once no lookup is pending
AllReturned(pending) == pending = {}

\* a lookup returns rows; after the last one the ids are intersected and,
\* when some id other than doc._id is left, the documents are fetched
LookupReturns(i, rows) ==
  /\ pc = "io"
  /\ exists.phase = "lookups"
  /\ i \in exists.pending
  /\ LET responses == [exists.responses EXCEPT ![i] = rows]
         pending == exists.pending \ {i}
         ids == Candidates(responses, attributes)
     IN IF ~AllReturned(pending)
          THEN /\ exists' = [exists EXCEPT !.responses = responses,
                                           !.pending = pending]
               /\ UNCHANGED <<returned, result, idx, seriesErr, pc, queries>>
          ELSE IF ids = {}
            THEN /\ ValidatorDone(NoErr,
                      ValidatorResult(validations[idx].funcName, "false"))
                 /\ exists' = NoExists
                 /\ UNCHANGED queries
            ELSE /\ exists' = [exists EXCEPT !.phase = "allDocs",
                                             !.responses = responses,
                                             !.pending = pending,
                                             !.ids = ids]
                 /\ queries' = queries + 1
                 /\ UNCHANGED <<returned, result, idx, seriesErr, pc>>
  /\ UNCHANGED <<validations, ignores, calls, errors, cbArgs, invoked,
                 pupilCalls, syncResult,
                 extracted, attributes, doc, db, parked, weekCheck>>

\* db.medic.allDocs fails
AllDocsFails ==
  /\ pc = "io"
  /\ exists.phase = "allDocs"
  /\ ValidatorDone(DbError, ValidatorResult(validations[idx].funcName, "undefined"))
  /\ exists' = NoExists
  /\ UNCHANGED <<validations, ignores, calls, errors, cbArgs, invoked,
                 queries, pupilCalls, syncResult,
                 extracted, attributes, doc, db, parked, weekCheck>>

\* db.medic.allDocs returns the documents of the candidate ids
AllDocsReturns(docs) ==
  /\ pc = "io"
  /\ exists.phase = "allDocs"
  /\ DOMAIN docs = exists.ids
  /\ ValidatorDone(NoErr,
        ValidatorResult(validations[idx].funcName,
                        IF Found(docs, exists.options) THEN "true" ELSE "false"))
  /\ exists' = NoExists
  /\ UNCHANGED <<validations, ignores, calls, errors, cbArgs, invoked,
                 queries, pupilCalls, syncResult,
                 extracted, attributes, doc, db, parked, weekCheck>>

\* the final callback of async.eachSeries, after the last spec or an abort
Final ==
  /\ \/ pc = "final"
     \/ pc = "series" /\ idx > Len(validations)
  /\ errors' = FinalErrors(errors, result, validations, ignores)
  /\ cbArgs' = Callback(cbArgs, errors')
  /\ pc' = "done"
  /\ UNCHANGED <<validations, ignores, calls, result, idx, exists, invoked,
                 queries, pupilCalls, syncResult, seriesErr,
                 returned, extracted, attributes, doc, db, parked, weekCheck>>

\* what a fetched document may hold
DocInfo == [errors : BOOLEAN, reported_date : {Now - 8, Now - 1}]

Next ==
  \/ \E ig \in IgnoreArgs : Validate(ig)
  \/ ParseAbort
  \/ Evaluate
  \/ EvaluateThrows
  \/ SeriesSkip
  \/ InvokeISOWeek
  \/ InvokeExists
  \/ \E i \in 1..2 : LookupFails(i)
  \/ \E i \in 1..2, rows \in SUBSET Ids : LookupReturns(i, rows)
  \/ AllDocsFails
  \/ \E docs \in [Ids \ {"self"} -> DocInfo] : AllDocsReturns(docs)
  \/ Final

Spec == Init /\ [][Next]_vars

----------------------------------------------------------------------------
\* extractErrors called on its own, for every ResultSet, messages map and
\* ignore argument of the bounded sets below.

MaxKeys == 2

ExtractKeys == {<<"pid">>, <<"week">>, <<"pid", "_unique">>}

\* objects with at most MaxKeys distinct keys, in every insertion order
ResultSets ==
  UNION { { r \in [1..n -> ExtractKeys \X BOOLEAN] :
              \A i, j \in 1..n : r[i][1] = r[j][1] => i = j } : n \in 0..MaxKeys }

AllMessages ==
  << << <<"pid">>, "msg pid" >>, << <<"week">>, "msg week" >>,
     << <<"pid", "_unique">>, "msg pid_unique" >> >>

\* messages maps that resolve a message for some of the keys only
MessageMaps ==
  { SelectSeq(AllMessages, LAMBDA m : m[1] \in S) : S \in SUBSET ExtractKeys }

ExtractIgnoreArgs == IgnoreArgs \cup { Some([one |-> <<"week">>]), Some([list |-> <<>>]) }

InitExtract ==
  /\ validations = <<>>
  /\ ignores = None
  /\ pc = "extract"
  /\ calls = 0
  /\ errors = <<>>
  /\ result = <<>>
  /\ idx = 0
  /\ exists = NoExists
  /\ cbArgs = <<>>
  /\ invoked = <<>>
  /\ queries = 0
  /\ pupilCalls = 0
  /\ syncResult = <<>>
  /\ seriesErr = NoErr
  /\ returned = <<>>
  /\ attributes = <<>>
  /\ doc = DocOf(<<>>, <<>>)
  /\ db = {}
  /\ parked = NoCall
  /\ weekCheck = NoWeekCheck
  /\ extracted \in [called : {FALSE}, result : ResultSets, messages : MessageMaps,
                    ignores : ExtractIgnoreArgs, out : {<<>>}]

ExtractCall ==
  /\ pc = "extract"
  /\ ~extracted.called
  /\ extracted' = [extracted EXCEPT
                     !.called = TRUE,
                     !.out = extractErrors(extracted.result, extracted.messages,
                                           extracted.ignores)]
  /\ UNCHANGED <<validations, ignores, pc, calls, errors, result, idx, exists,
                 cbArgs, invoked, queries, pupilCalls, syncResult, seriesErr,
                 returned, attributes, doc, db, parked, weekCheck>>

NextExtract == ExtractCall

SpecExtract == InitExtract /\ [][NextExtract]_vars

----------------------------------------------------------------------------
\* isISOWeek called on its own, for the week and year values below.

WeekValues ==
  { <<>>, <<"0">>, <<"1">>, <<"9">>, <<"0", "1">>, <<"5", "2">>, <<"5", "3">>,
    <<"5", "4">>, <<"0", "5", "3">>, <<"5", "a">> }

YearValues ==
  { <<"2", "0", "1", "5">>, <<"2", "0", "1", "6">>, <<"2", "0", "2", "0">>,
    <<"2", "0", "2", "1">>, <<"2", "1", "5">>, <<"2", "0", "1", "5", "5">>,
    <<"2", "0", "1", "a">> }

\* attribute maps with a week and possibly a year
WeekAttributes ==
  { << <<"week", w>> >> : w \in WeekValues }
  \cup { << <<"week", w>>, <<"year", y>> >> : w \in WeekValues, y \in YearValues }

\* funcArgs of isISOWeek('week','year') and of isISOWeek('week')
WeekArgs == { <<"week", "year">>, <<"week">> }

InitISOWeek ==
  /\ validations = <<>>
  /\ ignores = None
  /\ pc = "isISOWeek"
  /\ calls = 0
  /\ errors = <<>>
  /\ result = <<>>
  /\ idx = 0
  /\ exists = NoExists
  /\ cbArgs = <<>>
  /\ invoked = <<>>
  /\ queries = 0
  /\ pupilCalls = 0
  /\ syncResult = <<>>
  /\ seriesErr = NoErr
  /\ returned = <<>>
  /\ attributes = <<>>
  /\ extracted = NoExtract
  /\ doc = DocOf(<<>>, <<>>)
  /\ db = {}
  /\ parked = NoCall
  /\ weekCheck \in [called : {FALSE}, attrs : WeekAttributes, args : WeekArgs,
                     out : {[err |-> NoErr, res |-> "undefined"]}]

ISOWeekCall ==
  /\ pc = "isISOWeek"
  /\ ~weekCheck.called
  /\ weekCheck' = [weekCheck EXCEPT
                     !.called = TRUE,
                     !.out = isISOWeek(weekCheck.attrs,
                                       [funcArgs |-> Some(weekCheck.args)])]
  /\ UNCHANGED <<validations, ignores, pc, calls, errors, result, idx, exists,
                 cbArgs, invoked, queries, pupilCalls, syncResult, seriesErr,
                 returned, attributes, extracted, doc, db, parked>>

NextISOWeek == ISOWeekCall

SpecISOWeek == InitISOWeek /\ [][NextISOWeek]_vars

----------------------------------------------------------------------------
\* validate against a datastore that holds a fixed set of documents: every
\* lookup and fetch succeeds and returns what the documents say.

MaxDocs == 3

StoredDoc(id, form, pid, name, errs, date) ==
  [id |-> id, form |-> form,
   fields |-> << <<"pid", pid>>, <<"name", name>> >>,
   errors |-> errs, reported_date |-> date]

\* the document under validation as stored, and other reports: with the same
\* pid and name, with recorded errors, reported long ago under another name
\* and form, with another pid, and reported exactly a week ago
StoredDocs ==
  { StoredDoc("self", <<"R", "E", "G">>, <<"X">>, <<"n">>, FALSE, Now - 1),
    StoredDoc("a", <<"R", "E", "G">>, <<"x">>, <<"n">>, FALSE, Now - 1),
    StoredDoc("b", <<"R", "E", "G">>, <<"X">>, <<"n">>, TRUE, Now - 1),
    StoredDoc("c", <<"O", "T", "H">>, <<"X">>, <<"m">>, FALSE, Now - 8),
    StoredDoc("d", <<"R", "E", "G">>, <<"Y">>, <<"n">>, FALSE, Now - 1),
    StoredDoc("e", <<"O", "T", "H">>, <<"X">>, <<"n">>, FALSE, Now - 7) }

Datastores == {S \in SUBSET StoredDocs : Cardinality(S) <= MaxDocs}

\* the keys the view medic-client/reports_by_freetext emits for a document:
\* `field:value` for its form and for each of its fields, in lower case
ViewKeys(d) ==
  { <<d.fields[i][1], lowerCaseString(d.fields[i][2])>> : i \in 1..Len(d.fields) }
  \cup { <<"form", lowerCaseString(d.form)>> }

\* db.medic.query(view, {key}): the ids of the documents emitted under key
QueryRows(store, key) == { d.id : d \in {x \in store : key \in ViewKeys(x)} }

\* db.medic.allDocs({keys: ids, include_docs: true})
FetchDocs(store, ids) == [id \in ids |-> CHOOSE d \in store : d.id = id]

\* the second document holds a name of its own, which doc.fields overrides,
\* and a form, which doc.fields does not hold
DataDocs ==
  { DocOf(<< <<"_id", <<"self">> >> >>,
          << <<"pid", <<"X">> >>, <<"name", <<"n">> >> >>),
    DocOf(<< <<"_id", <<"self">> >>, <<"name", <<"m">> >>,
             <<"form", <<"R", "E", "G">> >> >>,
          << <<"pid", <<"X">> >>, <<"name", <<"n">> >> >>) }

DataSpecs ==
  { Spec0(<<"pid">>, r, Some("msg " \o r)) :
      r \in {"unique('pid')", "unique('pid','name')",
             "uniqueWithin('pid','7 days')", "uniqueWithin('pid','1 week')",
             "exists('REG','pid')"} }

DataLists ==
  { <<v>> : v \in DataSpecs }
  \cup { << Spec0(<<"pid", "_unique", "_id">>, "unique('pid')", Some("msg pid_unique_id")) >>,
         << Spec0(<<"pid">>, "unique('pid')", Some("msg unique('pid')")),
            Spec0(<<"pid">>, "uniqueWithin('pid','7 days')",
                  Some("msg uniqueWithin('pid','7 days')")) >> }

InitData ==
  /\ validations \in DataLists
  /\ ignores = None
  /\ pc = "idle"
  /\ calls = 0
  /\ errors = <<>>
  /\ result = <<>>
  /\ idx = 0
  /\ exists = NoExists
  /\ cbArgs = <<>>
  /\ invoked = <<>>
  /\ queries = 0
  /\ pupilCalls = 0
  /\ syncResult = <<>>
  /\ seriesErr = NoErr
  /\ returned = <<>>
  /\ attributes = <<>>
  /\ extracted = NoExtract
  /\ doc \in DataDocs
  /\ db \in Datastores
  /\ parked = NoCall
  /\ weekCheck = NoWeekCheck

\* the datastore answers lookup i
DbLookupReturns(i) ==
  /\ pc = "io"
  /\ exists.phase = "lookups"
  /\ i \in exists.pending
  /\ LookupReturns(i, QueryRows(db, exists.keys[i]))

\* the datastore returns the candidate documents
DbAllDocsReturns ==
  /\ pc = "io"
  /\ exists.phase = "allDocs"
  /\ AllDocsReturns(FetchDocs(db, exists.ids))

NextData ==
  \/ \E ig \in IgnoreArgs : Validate(ig)
  \/ Evaluate
  \/ SeriesSkip
  \/ InvokeExists
  \/ \E i \in 1..2 : DbLookupReturns(i)
  \/ DbAllDocsReturns
  \/ Final

SpecData == InitData /\ [][NextData]_vars

----------------------------------------------------------------------------
\* Two validate calls on the same validations list and document, interleaved
\* where a call waits for the datastore.  One call is running, the other is
\* parked; its variables are kept in `parked`.

\* the variables of the running call
CurrentCall ==
  [ignores |-> ignores, pc |-> pc, errors |-> errors, result |-> result,
   idx |-> idx, exists |-> exists, cbArgs |-> cbArgs, invoked |-> invoked,
   queries |-> queries, pupilCalls |-> pupilCalls, syncResult |-> syncResult,
   seriesErr |-> seriesErr, returned |-> returned, attributes |-> attributes]

\* a call yields only outside validate and while it waits for a datastore
\* callback: everything else runs to completion
CanYield(p) == p \in {"idle", "io", "done"}

\* the running call yields and the parked one goes on
Switch ==
  /\ CanYield(pc)
  /\ parked' = CurrentCall
  /\ ignores' = parked.ignores
  /\ pc' = parked.pc
  /\ errors' = parked.errors
  /\ result' = parked.result
  /\ idx' = parked.idx
  /\ exists' = parked.exists
  /\ cbArgs' = parked.cbArgs
  /\ invoked' = parked.invoked
  /\ queries' = parked.queries
  /\ pupilCalls' = parked.pupilCalls
  /\ syncResult' = parked.syncResult
  /\ seriesErr' = parked.seriesErr
  /\ returned' = parked.returned
  /\ attributes' = parked.attributes
  /\ UNCHANGED <<validations, calls, extracted, doc, db, weekCheck>>

ConcStores ==
  { S \in Datastores : S \subseteq {d \in StoredDocs : d.id \in {"self", "a", "b", "e"}} }

InitConc ==
  /\ validations \in DataLists
  /\ ignores = None
  /\ pc = "idle"
  /\ calls = 0
  /\ errors = <<>>
  /\ result = <<>>
  /\ idx = 0
  /\ exists = NoExists
  /\ cbArgs = <<>>
  /\ invoked = <<>>
  /\ queries = 0
  /\ pupilCalls = 0
  /\ syncResult = <<>>
  /\ seriesErr = NoErr
  /\ returned = <<>>
  /\ attributes = <<>>
  /\ extracted = NoExtract
  /\ doc \in DataDocs
  /\ db \in ConcStores
  /\ parked = NoCall
  /\ weekCheck = NoWeekCheck

NextConc ==
  \/ \E ig \in IgnoreArgs : Validate(ig)
  \/ Evaluate
  \/ SeriesSkip
  \/ InvokeExists
  \/ \E i \in 1..2 : DbLookupReturns(i)
  \/ DbAllDocsReturns
  \/ Final
  \/ Switch

SpecConc == InitConc /\ [][NextConc]_vars

----------------------------------------------------------------------------
\* validate on one list per path through it, under the scheduling Node.js
\* gives: code that can run does run, and the datastore answers every
\* request it was sent.

PathLists ==
  { << Spec0(<<"pid">>, "lenMin(", Some("msg lenMin(")) >>,
    << Spec0(<<"pid">>, "lenMin(5)", Some("msg lenMin(5)")) >>,
    << Spec0(<<"pid">>, "unique()", Some("msg unique()")),
       Spec0(<<"pid">>, "unique('pid')", Some("msg unique('pid')")) >>,
    << Spec0(<<"pid">>, "uniqueWithin('1 week')", Some("msg uniqueWithin('1 week')")),
       Spec0(<<"pid">>, "unique('pid')", Some("msg unique('pid')")) >>,
    << Spec0(<<"pid">>, "lenMin(5)", Some("msg lenMin(5)")),
       Spec0(<<"pid">>, "uniqueWithin('1 week')", Some("msg uniqueWithin('1 week')")) >>,
    << Spec0(<<"week">>, "isISOWeek('week','year')", Some("msg week")),
       Spec0(<<"pid">>, "unique('pid')", Some("msg unique('pid')")) >>,
    << Spec0(<<"pid">>, "exists('REG','pid')", Some("msg exists")),
       Spec0(<<"pid">>, "uniqueWithin('pid','1 week')", Some("msg uniqueWithin")) >> }

InitPaths ==
  /\ validations \in PathLists
  /\ ignores = None
  /\ pc = "idle"
  /\ calls = 0
  /\ errors = <<>>
  /\ result = <<>>
  /\ idx = 0
  /\ exists = NoExists
  /\ cbArgs = <<>>
  /\ invoked = <<>>
  /\ queries = 0
  /\ pupilCalls = 0
  /\ syncResult = <<>>
  /\ seriesErr = NoErr
  /\ returned = <<>>
  /\ attributes = <<>>
  /\ extracted = NoExtract
  /\ doc \in Docs
  /\ db = {}
  /\ parked = NoCall
  /\ weekCheck = NoWeekCheck

\* the steps validate takes by itself
CodeStep ==
  \/ ParseAbort
  \/ Evaluate
  \/ EvaluateThrows
  \/ SeriesSkip
  \/ InvokeISOWeek
  \/ InvokeExists
  \/ Final

\* the datastore calls back: a lookup, or the fetch of the documents
DbReply ==
  \/ \E i \in 1..2 : LookupFails(i)
  \/ \E i \in 1..2, rows \in SUBSET Ids : LookupReturns(i, rows)
  \/ AllDocsFails
  \/ \E docs \in [Ids \ {"self"} -> DocInfo] : AllDocsReturns(docs)

NextPaths ==
  \/ \E ig \in IgnoreArgs : Validate(ig)
  \/ CodeStep
  \/ DbReply

SpecPaths ==
  InitPaths /\ [][NextPaths]_vars /\ WF_vars(CodeStep) /\ WF_vars(DbReply)

----------------------------------------------------------------------------
\* Properties.

\* the names an ignore argument stands for
IgnoredNames(ig) ==
  IF ig = None THEN {}
  ELSE IF "list" \in DOMAIN ig[1]
         THEN {ig[1].list[i] : i \in 1..Len(ig[1].list)}
         ELSE {ig[1].one}

IsDescriptor(x) == "code" \in DOMAIN x
IsString(x) == "str" \in DOMAIN x

\* the rule of a spec calls an extra validator
CallsExtra(v) ==
  LET parsed == Parse(v.rule) IN
  \E i \in 1..Len(parsed.entities) :
    \E j \in 1..Len(parsed.entities[i].sub) :
      IsExtra(parsed.entities[i].sub[j].funcName)

FailsToParse(v) == ~Parse(v.rule).ok

InAsyncStage == pc \in {"series", "io", "final"}

\* C1: during the async stage a ResultSet entry that is false stays false
\* (up to and including the step that computes the error list), and every
\* entry the stage changes is changed to false.
C1_Monotonic ==
  [][InAsyncStage =>
       /\ Len(result') = Len(result)
       /\ \A i \in 1..Len(result) :
            /\ result'[i][1] = result[i][1]
            /\ (result[i][2] = FALSE => result'[i][2] = FALSE)
            /\ (result'[i][2] # result[i][2] => result'[i][2] = FALSE)]_vars

\* C1 witness: a validator called back with true for a property the
\* synchronous evaluation had found invalid, and the call has finished.
C1_Witness ==
  /\ pc = "done"
  /\ \E j \in 1..Len(returned) :
       /\ returned[j].res = "true"
       /\ ObjGet(syncResult, validations[invoked[j]].property, TRUE) = FALSE
       /\ ObjGet(result, validations[invoked[j]].property, TRUE) = FALSE

\* C2 (as claimed): when an extra validator reported an error, the callback
\* received that error and no field-level ErrorDescriptor.
C2_ErrorSurfaced ==
  (pc = "done" /\ \E j \in 1..Len(returned) : returned[j].err # NoErr) =>
     /\ Len(cbArgs) = 1
     /\ \E i \in 1..Len(cbArgs[1]) :
          \E j \in 1..Len(returned) :
            returned[j].err # NoErr /\ cbArgs[1][i] = [error |-> returned[j].err]
     /\ \A i \in 1..Len(cbArgs[1]) : ~IsDescriptor(cbArgs[1][i])

\* C3: once a validator has called back with an error it is the last one
\* invoked: no later validator is invoked and no datastore request is pending
\* or issued.
C3_SequentialAbort ==
  \A j \in 1..Len(returned) :
    returned[j].err # NoErr =>
      /\ Len(invoked) = j
      /\ exists = NoExists
      /\ pc \in {"final", "done"}

C3_Witness ==
  /\ pc = "done"
  /\ \E j \in 1..Len(returned) :
       /\ returned[j].err # NoErr
       /\ invoked[j] < Len(validations)
       /\ validations[invoked[j] + 1].funcName # ""

\* the parse-error strings of the rules that fail to parse, in order
ParseErrorsOf(vs) ==
  LET bad == {i \in 1..Len(vs) : FailsToParse(vs[i])}
      Rank(i) == Cardinality({k \in bad : k <= i})
  IN [n \in 1..Cardinality(bad) |->
        ParseError(vs[CHOOSE i \in bad : Rank(i) = n].rule)]

\* C4: when some rule fails to parse, the grammar engine's validate is not
\* called, no validator is invoked, no datastore request is issued, and the
\* callback receives the collected parse-error strings.
C4_ParseAbort ==
  (calls > 0 /\ \E i \in 1..Len(validations) : FailsToParse(validations[i])) =>
     /\ pupilCalls = 0
     /\ invoked = <<>>
     /\ queries = 0
     /\ result = <<>>
     /\ pc \in {"rewritten", "done"}
     /\ pc = "done" => cbArgs = <<ParseErrorsOf(validations)>>

C4_Witness ==
  /\ pc = "done"
  /\ \E i \in 1..Len(validations) : FailsToParse(validations[i])
  /\ \E i \in 1..Len(validations) : CallsExtra(validations[i])

\* the call ended before the validator series started
ErrorEnd == pc = "done" /\ idx = 0

\* C5 (as claimed): a call that ends with a parse or evaluation error passes
\* a list of exactly one string.
C5_SingleElement ==
  ErrorEnd => Len(cbArgs) = 1 /\ Len(cbArgs[1]) = 1 /\ IsString(cbArgs[1][1])

\* C5 (amended): the list holds strings only, one per rule that failed to
\* parse, and a single string when the grammar engine's validate threw.
C5_OnePerParseError ==
  ErrorEnd =>
    /\ Len(cbArgs) = 1
    /\ \A i \in 1..Len(cbArgs[1]) : IsString(cbArgs[1][i])
    /\ LET bad == {i \in 1..Len(validations) : FailsToParse(validations[i])} IN
         Len(cbArgs[1]) = IF bad = {} THEN 1 ELSE Cardinality(bad)

C5_Witness ==
  /\ ErrorEnd
  /\ Cardinality({i \in 1..Len(validations) : FailsToParse(validations[i])}) = 2

\* occurrences of the token in a property name
Occurrences(property, tok) ==
  Cardinality({i \in 1..Len(property) : property[i] = tok})

\* C6: the rewriter applied to a list it has already rewritten changes no
\* spec, and no property carries a suffix _<funcName> twice.
C6_RewriteIdempotent ==
  [][/\ calls >= 1 => validations' = validations
     /\ \A i \in 1..Len(validations') : \A n \in 1..Len(names) :
          Occurrences(validations'[i].property, Suffix(names[n])) <= 1]_vars

C6_Witness ==
  /\ calls = 2
  /\ \E i \in 1..Len(validations) :
       /\ validations[i].funcName # ""
       /\ validations[i].field # None
       /\ validations[i].property = Append(validations[i].field[1],
                                           Suffix(validations[i].funcName))

\* C7: with no rule calling an extra validator, a call that got past the
\* synchronous evaluation passes exactly extractErrors of the synchronous
\* ResultSet; the async stage changed nothing and issued nothing.
C7_SyncOnly ==
  (idx > 0 /\ \A i \in 1..Len(validations) : ~CallsExtra(validations[i])) =>
     /\ result = syncResult
     /\ invoked = <<>>
     /\ queries = 0
     /\ exists = NoExists
     /\ pc = "done" =>
          cbArgs = <<extractErrors(syncResult, getMessages(validations), ignores)>>

C7_Witness ==
  /\ pc = "done"
  /\ idx > 0
  /\ \A i \in 1..Len(validations) : ~CallsExtra(validations[i])
  /\ \E i \in 1..Len(syncResult) : ~syncResult[i][2]
  /\ cbArgs # << <<>> >>
  /\ ignores # None

\* C8: extractErrors outputs no descriptor for an ignored property.
C8_IgnoredNeverReported ==
  extracted.called =>
    \A p \in IgnoredNames(extracted.ignores) :
      \A i \in 1..Len(extracted.out) :
        extracted.out[i].code # <<"invalid_">> \o p

C8_Witness ==
  /\ extracted.called
  /\ \E p \in IgnoredNames(extracted.ignores) :
       ObjGet(extracted.result, p, TRUE) = FALSE
  /\ extracted.out # <<>>
  /\ "one" \in DOMAIN extracted.ignores[1]

\* the property a spec was declared with
DeclaredProperty(v) == IF v.field # None THEN v.field[1] ELSE v.property

\* C9 (as claimed): no descriptor stems from a validation declared on an
\* ignored doc key, be it a grammar rule or an extra-validator rule (stated
\* for the calls whose synchronous evaluation found every property valid, so
\* that a descriptor can only stem from an extra validator).
C9_IgnoredKeyValid ==
  (pc = "done" /\ idx > 0 /\ \A k \in 1..Len(syncResult) : syncResult[k][2]) =>
    \A i \in 1..Len(validations) :
      DeclaredProperty(validations[i]) \in IgnoredNames(ignores) =>
        \A c \in 1..Len(cbArgs[1]) :
          cbArgs[1][c].code # <<"invalid_">> \o validations[i].property

\* C10: extractErrors outputs, in ResultSet order, one descriptor for each
\* property that is false and not ignored, and nothing else.
C10_ExtractExact ==
  extracted.called =>
    LET res == extracted.result
        bad == {i \in 1..Len(res) :
                  ~res[i][2] /\ res[i][1] \notin IgnoredNames(extracted.ignores)}
        Rank(i) == Cardinality({k \in bad : k <= i})
    IN /\ Len(extracted.out) = Cardinality(bad)
       /\ \A i \in bad :
            extracted.out[Rank(i)] =
              [code |-> <<"invalid_">> \o res[i][1],
               message |-> IF \E m \in 1..Len(extracted.messages) :
                                extracted.messages[m][1] = res[i][1]
                             THEN extracted.messages[
                                    CHOOSE m \in 1..Len(extracted.messages) :
                                      extracted.messages[m][1] = res[i][1]][2]
                             ELSE "undefined"]
       /\ (extracted.out = <<>>) <=> (bad = {})

C10_Witness ==
  /\ extracted.called
  /\ Len(extracted.out) = 2
  /\ extracted.ignores # None
  /\ extracted.out[1].message = "undefined"
  /\ extracted.out[2].message # "undefined"

\* the documents of the datastore, other than the one under validation, that
\* hold no recorded errors and the same lower-cased value of every field
Duplicates(fields) ==
  { d \in db :
      /\ <<d.id>> # ObjGet(doc.own, "_id", Undefined)
      /\ ~d.errors
      /\ \A i \in 1..Len(fields) :
           /\ ObjHas(d.fields, fields[i])
           /\ ObjHas(doc.fields, fields[i])
           /\ lowerCaseString(ObjGet(d.fields, fields[i], Undefined))
                = lowerCaseString(ObjGet(doc.fields, fields[i], Undefined)) }

\* the running call is over a single spec {property: f, rule: unique(f)}
SingleUnique ==
  /\ Len(validations) = 1
  /\ validations[1].funcName = "unique"
  /\ validations[1].field # None
  /\ validations[1].funcArgs = Some(validations[1].field[1])

\* C11: for a single spec {property: f, rule: unique(f), message} and no
\* ignored name, validate calls back with the empty list when the datastore
\* holds no other error-free document with the same lower-cased value of f,
\* and otherwise with exactly one descriptor, of code invalid_<f>_unique and
\* of the message resolved for the spec.
C11_UniqueEndToEnd ==
  (pc = "done" /\ SingleUnique /\ IgnoredNames(ignores) = {}) =>
    LET v == validations[1] IN
    cbArgs = << IF Duplicates(v.field[1]) = {}
                  THEN <<>>
                  ELSE << [code |-> <<"invalid_">> \o v.field[1] \o <<"_unique">>,
                           message |-> getMessage(v)] >> >>

\* C11 witness: the only duplicate holds the value in another case, next to
\* the document itself and a document with recorded errors; the call ended
\* with the descriptor.
C11_Witness ==
  /\ pc = "done"
  /\ SingleUnique
  /\ IgnoredNames(ignores) = {}
  /\ Cardinality(db) = 3
  /\ Cardinality(Duplicates(validations[1].field[1])) = 1
  /\ \E d \in Duplicates(validations[1].field[1]) :
       ObjGet(d.fields, "pid", Undefined) # ObjGet(doc.fields, "pid", Undefined)
  /\ Len(cbArgs[1]) = 1

\* the window a uniqueWithin rule states, in days
WindowDays(rule) ==
  CASE rule = "uniqueWithin('pid','7 days')" -> 7
    [] rule = "uniqueWithin('pid','1 week')" -> 7

\* the fields a uniqueWithin spec lists before its window
WindowFields(v) == SubSeq(v.funcArgs[1], 1, Len(v.funcArgs[1]) - 1)

\* C12: uniqueWithin with window D returns false iff some other error-free
\* document matching all listed fields has reported_date >= Now - D; a
\* matching document reported before Now - D never causes false.
C12_WindowInclusive ==
  \A j \in 1..Len(returned) :
    LET v == validations[invoked[j]] IN
    (v.funcName = "uniqueWithin" /\ returned[j].err = NoErr) =>
      (returned[j].res = "false" <=>
         \E d \in Duplicates(WindowFields(v)) :
           d.reported_date >= Now - WindowDays(v.rule))

\* C12 witness: uniqueWithin returned false although the only duplicates are
\* one reported 8 days ago and one reported exactly 7 days ago.
C12_Witness ==
  /\ pc = "done"
  /\ \E j \in 1..Len(returned) :
       LET v == validations[invoked[j]] IN
       /\ v.funcName = "uniqueWithin"
       /\ returned[j].res = "false"
       /\ {d.reported_date : d \in Duplicates(WindowFields(v))} = {Now - 8, Now - 7}

\* the document holds the key neither itself nor in doc.fields
Absent(field) == ~ObjHas(doc.own, field) /\ ~ObjHas(doc.fields, field)

\* the week field of an isISOWeek spec, or the year field it designates, is
\* absent from the document
MissingWeekFields(v) ==
  \E a \in 1..Len(v.funcArgs[1]) : Absent(v.funcArgs[1][a])

\* C13: when the week field or a designated year field is absent, isISOWeek
\* calls back with (no error, false): the property is recorded invalid, the
\* series is not aborted by it, every following extra validator is invoked
\* (up to one that reports an error), and the call ends with a descriptor
\* for the property unless the property is ignored.
C13_MissingFieldIsFailure ==
  \A j \in 1..Len(returned) :
    LET i == invoked[j]
        v == validations[i]
    IN (v.funcName = "isISOWeek" /\ MissingWeekFields(v)) =>
         /\ returned[j] = [err |-> NoErr, res |-> "false"]
         /\ ObjGet(result, v.property, TRUE) = FALSE
         /\ pc = "final" => j < Len(returned)
         /\ pc = "done" =>
              /\ \A k \in (i + 1)..Len(validations) :
                   validations[k].funcName # "" =>
                     \/ \E j2 \in 1..Len(invoked) : invoked[j2] = k
                     \/ \E j2 \in (j + 1)..Len(returned) : returned[j2].err # NoErr
              /\ v.property \notin IgnoredNames(ignores) =>
                   \E c \in 1..Len(cbArgs[1]) :
                     cbArgs[1][c].code = <<"invalid_">> \o v.property

\* C13 witness: isISOWeek ran on a document without the week field, the
\* extra validator of the next spec ran after it, and the call ended with
\* the descriptor invalid_week_isISOWeek.
C13_Witness ==
  /\ pc = "done"
  /\ Len(invoked) = 2
  /\ validations[invoked[1]].funcName = "isISOWeek"
  /\ MissingWeekFields(validations[invoked[1]])
  /\ validations[invoked[2]].funcName = "unique"
  /\ \E c \in 1..Len(cbArgs[1]) :
       cbArgs[1][c].code = <<"invalid_", "week", "_isISOWeek">>

\* the number of ISO weeks of some years, from the calendar
KnownISOWeeks(year) ==
  CASE year = <<"2", "0", "1", "5">> -> 53
    [] year = <<"2", "0", "1", "6">> -> 52
    [] year = <<"2", "0", "2", "0">> -> 53
    [] year = <<"2", "0", "2", "1">> -> 52
    [] year = <<"2", "0", "2", "6">> -> 53
    [] OTHER -> 0

\* the number a week of one or two digits stands for
KnownWeek(week) ==
  CASE week = <<"0">> -> 0
    [] week \in {<<"1">>, <<"0", "1">>} -> 1
    [] week = <<"9">> -> 9
    [] week = <<"5", "2">> -> 52
    [] week = <<"5", "3">> -> 53
    [] week = <<"5", "4">> -> 54
    [] OTHER -> 0

OnlyDigits(value) ==
  \A i \in 1..Len(value) :
    value[i] \in {"0", "1", "2", "3", "4", "5", "6", "7", "8", "9"}

\* C14: with the referenced fields present, isISOWeek returns true iff the
\* week is 1 or 2 digits, the year (the designated field, else the current
\* year) is exactly 4 digits, and 1 <= week <= ISO weeks of that year.
C14_ISOWeekRange ==
  (/\ weekCheck.called
   /\ \A a \in 1..Len(weekCheck.args) : ObjHas(weekCheck.attrs, weekCheck.args[a])) =>
    LET week == ObjGet(weekCheck.attrs, "week", Undefined)
        year == IF Len(weekCheck.args) = 2
                  THEN ObjGet(weekCheck.attrs, "year", Undefined)
                  ELSE <<"2", "0", "2", "6">>
    IN /\ weekCheck.out.err = NoErr
       /\ weekCheck.out.res = "true" <=>
            /\ Len(week) \in {1, 2} /\ OnlyDigits(week)
            /\ Len(year) = 4 /\ OnlyDigits(year)
            /\ 1 <= KnownWeek(week)
            /\ KnownWeek(week) <= KnownISOWeeks(year)
       /\ weekCheck.out.res \in {"true", "false"}

\* C14 witness: week 53 of 2015 was found valid.
C14_Witness ==
  /\ weekCheck.called
  /\ weekCheck.attrs = << <<"week", <<"5", "3">> >>, <<"year", <<"2", "0", "1", "5">> >> >>
  /\ weekCheck.args = <<"week", "year">>
  /\ weekCheck.out = [err |-> NoErr, res |-> "true"]

\* C15: no step of validate changes the document or doc.fields; the only
\* object the flattening writes is the attribute map.
C15_DocNeverMutated ==
  [][/\ doc' = doc
     /\ attributes' # attributes => attributes' \in {<<>>, Flatten(doc)}]_vars

\* C15 witness: a call flattened doc.fields into the attribute map, ran a
\* validator that failed with an error, and ended; the document itself
\* still has no key of doc.fields.
C15_Witness ==
  /\ pc = "done"
  /\ ObjHas(attributes, "pid")
  /\ ObjHas(doc.fields, "pid")
  /\ ~ObjHas(doc.own, "pid")
  /\ \E j \in 1..Len(returned) : returned[j].err # NoErr

\* what the extra validator of a rewritten spec finds in the datastore
SpecFails(v) ==
  CASE v.funcName = "unique" -> Duplicates(v.funcArgs[1]) # {}
    [] v.funcName = "uniqueWithin" ->
         \E d \in Duplicates(WindowFields(v)) :
           d.reported_date >= Now - WindowDays(v.rule)
    [] v.funcName = "exists" ->
         ~\E d \in Duplicates(<<v.funcArgs[1][2]>>) :
            lowerCaseString(d.form) = lowerCaseString(v.funcArgs[1][1])
    [] OTHER -> FALSE

\* the error list of a call that runs alone on the list vs with the ignore
\* argument ig, every rule of the list calling extra validators only
AloneErrors(vs, ig) ==
  LET ignored == IgnoredNames(ig)
      bad == {i \in 1..Len(vs) : SpecFails(vs[i]) /\ vs[i].property \notin ignored}
      Rank(i) == Cardinality({k \in bad : k <= i})
  IN [n \in 1..Cardinality(bad) |->
        LET v == vs[CHOOSE i \in bad : Rank(i) = n] IN
        [code |-> <<"invalid_">> \o v.property, message |-> getMessage(v)]]

\* C16 (as claimed): no validate call writes to an object it did not create;
\* the validations list, which calls may be given in common, is never written.
C16_RequestScoped == [][validations' = validations]_vars

\* C16 (amended): the one shared object a call writes is the validations
\* list, rewritten in place when the call starts; while a call is in flight,
\* running or parked at a datastore callback, no step changes the list, and
\* each of two interleaved calls ends with the error list of a call run alone.
C16_Isolated ==
  [][/\ (parked.pc = "io" \/ ~CanYield(pc)) => validations' = validations
     /\ pc' = "done" => cbArgs' = <<AloneErrors(validations', ignores')>>
     /\ parked'.pc = "done" =>
          parked'.cbArgs = <<AloneErrors(validations', parked'.ignores)>>]_vars

\* C16 witness: both calls wait for the datastore at the same time, on a
\* list the first of them rewrote, one for its lookups and the other for the
\* candidate documents.
C16_Witness ==
  /\ pc = "io"
  /\ parked.pc = "io"
  /\ exists.phase = "allDocs"
  /\ parked.exists.phase = "lookups"
  /\ ignores # parked.ignores
  /\ \E i \in 1..Len(validations) : validations[i].funcName # ""

\* C17: extra validators are invoked in declaration order and one at a
\* time: a validator is invoked only when every validator invoked before it
\* has called back, datastore requests are issued only on behalf of the
\* validator invoked last, and a spec without funcName invokes nothing.
C17_OneAtATime ==
  [][/\ Len(invoked') > Len(invoked) =>
          /\ Len(returned) = Len(invoked)
          /\ exists = NoExists
          /\ invoked' = Append(invoked, idx)
          /\ \A j \in 1..Len(invoked) : invoked[j] < idx
          /\ validations[idx].funcName # ""
     /\ (queries' > queries /\ invoked' = invoked) =>
          /\ pc = "io"
          /\ Len(invoked) = Len(returned) + 1
          /\ idx = invoked[Len(invoked)]
     /\ Len(invoked') <= Len(returned') + 1
     /\ (pc = "series" /\ idx <= Len(validations)
            /\ validations[idx].funcName = "") =>
          (invoked' = invoked /\ queries' = queries /\ returned' = returned)]_vars

\* C17 witness: the validator of the second spec waits for the datastore
\* after the validator of the first spec has called back.
C17_Witness ==
  /\ pc = "io"
  /\ invoked = <<1, 2>>
  /\ Len(returned) = 1
  /\ queries >= 3

\* the extra validator the rule of a spec calls
CalledExtra(v) ==
  LET parsed == Parse(v.rule) IN
  CHOOSE f \in {names[n] : n \in 1..Len(names)} :
    \E i \in 1..Len(parsed.entities) :
      \E j \in 1..Len(parsed.entities[i].sub) :
        parsed.entities[i].sub[j].funcName = f

\* C18 (as claimed): once validate has been called, every spec whose rule
\* calls an extra validator F either was declared with a property ending in
\* _F or carries funcName = F, its funcArgs, field = the declared property
\* and property = field followed by _F, and its validator is run by every
\* call that reaches the end of the series.
C18_RewrittenUnlessSuffixed ==
  calls > 0 =>
    \A i \in 1..Len(validations) :
      LET v == validations[i] IN
      CallsExtra(v) =>
        \/ /\ v.field = None
           /\ v.property[Len(v.property)] = Suffix(CalledExtra(v))
        \/ /\ v.funcName = CalledExtra(v)
           /\ v.funcArgs # None
           /\ v.field # None
           /\ v.property = Append(v.field[1], Suffix(v.funcName))
           /\ pc = "done" => \E j \in 1..Len(invoked) : invoked[j] = i

\* the result of _exists behind what a validator called back with
ExistsResult(v, res) == IF v.funcName = "exists" THEN res ELSE Not(res)

\* C19: the existence check is true iff some id other than the document's
\* own is in the rows of every lookup (the additional-filter lookup
\* included) and the document of one such id has no recorded errors and,
\* when a start date is set, a reported_date not before it.
C19_IntersectionOfLookups ==
  \A j \in 1..Len(returned) :
    LET v == validations[invoked[j]]
        keys == requestOptions(Flatten(doc), ExistsFields(v), ExistsOptions(v))
    IN returned[j].err = NoErr =>
         (ExistsResult(v, returned[j].res) = "true" <=>
            \E d \in db :
              /\ <<d.id>> # ObjGet(doc.own, "_id", Undefined)
              /\ \A k \in 1..Len(keys) : d.id \in QueryRows(db, keys[k])
              /\ ~d.errors
              /\ v.funcName = "uniqueWithin" =>
                   d.reported_date >= Now - WindowDays(v.rule))

\* C19 witness: unique over two fields returned true although the document
\* itself and a document with recorded errors match both fields and a third
\* document matches one of them.
C19_Witness ==
  /\ pc = "done"
  /\ Len(returned) = 1
  /\ validations[1].funcName = "unique"
  /\ Len(validations[1].funcArgs[1]) = 2
  /\ returned[1] = [err |-> NoErr, res |-> "true"]
  /\ {d.id : d \in db} = {"self", "b", "d"}

\* the ids every response holds
InEveryResponse(responses) ==
  {id \in Ids : \A i \in 1..Len(responses) : id \in responses[i]}

\* C20: while the lookups of an existence check are pending, in whatever
\* order they return, nothing is combined or fetched before the last one
\* has returned; the documents fetched then are those of the ids every
\* response holds, the document's own excepted; a lookup that fails ends
\* the check with its error, without a fetch.
C20_LookupsCombinedLast ==
  [][(pc = "io" /\ exists.phase = "lookups") =>
       /\ exists'.phase = "lookups" =>
            /\ exists'.pending # {}
            /\ queries' = queries
            /\ returned' = returned
       /\ exists'.phase = "allDocs" =>
            /\ Cardinality(exists.pending) = 1
            /\ exists'.pending = {}
            /\ queries' = queries + 1
            /\ exists'.ids = InEveryResponse(exists'.responses) \ {"self"}
            /\ exists'.ids # {}
            /\ returned' = returned
       /\ exists' = NoExists =>
            /\ queries' = queries
            /\ Len(returned') = Len(returned) + 1
            /\ LET r == returned'[Len(returned')] IN
                 \/ r.err = DbError
                 \/ /\ r.err = NoErr
                    /\ Cardinality(exists.pending) = 1
                    /\ ExistsResult(validations[idx], r.res) = "false"]_vars

\* C20 witness: the documents are being fetched after two lookups returned
\* different rows.
C20_Witness ==
  /\ pc = "io"
  /\ exists.phase = "allDocs"
  /\ Len(exists.responses) = 2
  /\ exists.responses[1] # exists.responses[2]
  /\ exists.ids = {"other"}

\* the value the merge of the document first and doc.fields second holds
\* for a key of either
MergedValue(k) ==
  IF ObjHas(doc.fields, k) THEN ObjGet(doc.fields, k, Undefined)
  ELSE ObjGet(doc.own, k, Undefined)

\* C21: the attribute map of a call that got past the rewriter holds, for
\* every key of doc.fields, the doc.fields value, for every other key of the
\* document the document's value, and no key of neither; the lookups of the
\* extra validators are keyed with these values.
C21_FieldsOverrideDoc ==
  (pc \in {"series", "io", "final"} \/ (pc = "done" /\ idx > 0)) =>
    /\ \A i \in 1..Len(doc.fields) :
         ObjGet(attributes, doc.fields[i][1], Undefined) = doc.fields[i][2]
    /\ \A i \in 1..Len(doc.own) :
         ObjGet(attributes, doc.own[i][1], Undefined) = MergedValue(doc.own[i][1])
    /\ \A i \in 1..Len(attributes) :
         \/ attributes[i][1] = "fields"
         \/ ObjHas(doc.fields, attributes[i][1])
         \/ ObjHas(doc.own, attributes[i][1])
    /\ (pc = "io" /\ exists.phase = "lookups") =>
         \A k \in 1..Len(exists.keys) :
           exists.keys[k][1] # "form" =>
             exists.keys[k][2] = lowerCaseString(MergedValue(exists.keys[k][1]))

\* C21 witness: a validator looks up the name of doc.fields although the
\* document holds another name of its own, and the attribute map holds the
\* form only the document has.
C21_Witness ==
  /\ pc = "io"
  /\ exists.phase = "lookups"
  /\ ObjGet(doc.own, "name", Undefined) = <<"m">>
  /\ ObjGet(attributes, "name", Undefined) = <<"n">>
  /\ ObjGet(attributes, "form", Undefined) = <<"R", "E", "G">>
  /\ \E k \in 1..Len(exists.keys) : exists.keys[k] = <<"name", <<"n">> >>

\* C22: a validate call invokes its completion callback at most once: the
\* callback is invoked only by a call that has not invoked it yet, which is
\* then over, and no validator calls back more often than it was invoked.
C22_CallbackAtMostOnce ==
  [][/\ Len(cbArgs') <= 1
     /\ cbArgs' # cbArgs =>
          \/ cbArgs' = <<>> /\ calls' = calls + 1
          \/ cbArgs = <<>> /\ Len(cbArgs') = 1 /\ pc' = "done"
     /\ pc' = "done" => Len(cbArgs') = 1
     /\ Len(returned') <= Len(invoked')]_vars

\* C22 witness: a second call on the list ended after a validator error
\* aborted the series, with one invocation of the callback.
C22_Witness ==
  /\ pc = "done"
  /\ calls = 2
  /\ seriesErr = DbError
  /\ Len(cbArgs) = 1

NoFields(v) ==
  \/ v.funcName = "unique" /\ v.funcArgs[1] = <<>>
  \/ v.funcName = "uniqueWithin" /\ Len(v.funcArgs[1]) = 1

====
